---- MODULE Spec2Model ----
(***************************************************************************)
(* Model of the Observer work/rest cycle coordinator (src/main.py), its    *)
(* configuration (src/config.py), the activity monitor                     *)
(* (src/activity_monitor.py) and the notification hand-off                 *)
(* (src/notifications.py).                                                 *)
(*                                                                         *)
(* Threads of the program and how they appear here:                        *)
(*   - the main loop (Observer._main_loop): tick_pc, delta                 *)
(*   - callback threads spawned by the monitor: activity_threads,          *)
(*     inactivity_threads (spawned, not yet inside the handler)            *)
(*   - the configuration window thread running Observer._save_config:      *)
(*     save_pc                                                             *)
(*   - force_activity_check threads spawned by _save_config: force_checks  *)
(*   - NotificationManager.notify spawns a _send thread per request and    *)
(*     returns; notified holds the requests of the tick in progress,       *)
(*     send_threads counts the _send threads that have not returned        *)
(*   - the tray thread calling _get_state_info: state_info is the dict     *)
(*     being returned, while that thread still holds state_lock            *)
(* last_event is a history variable: the latest among the requests handed  *)
(* to notify() and the runs of _on_activity, both made under state_lock.   *)
(* state_lock names the thread that holds Observer.state_lock.  A critical *)
(* section that reads and writes only lock-protected fields is one step    *)
(* (acquire + body) followed by a release step.  Config is written by      *)
(* Config.update outside the lock, one field per step.                     *)
(*                                                                         *)
(* Time: elapsed counters are in seconds; the measured delta of a tick is  *)
(* a whole number of seconds in 1..MaxDelta (time.sleep(1) lets at least   *)
(* one second pass between two readings of a non-decreasing clock).        *)
(***************************************************************************)
EXTENDS Integers, Sequences, FiniteSets, TLC

VARIABLES
    state,                    \* Observer.state
    work_elapsed,             \* Observer.work_elapsed
    rest_elapsed,             \* Observer.rest_elapsed
    pause_elapsed,            \* Observer.pause_elapsed
    rest_inactivity_elapsed,  \* Observer.rest_inactivity_elapsed
    is_currently_inactive,    \* Observer.is_currently_inactive
    config,                   \* Observer.config (the Config dataclass fields)
    state_lock,               \* holder of Observer.state_lock, or "free"
    running,                  \* Observer.running
    tick_pc,                  \* position of the main loop thread
    delta,                    \* local `delta` of _main_loop (0 when dead)
    notified,                 \* requests this tick handed to notify()
    save_pc,                  \* position of the thread inside _save_config
    new_values,               \* the dict _save_config was called with
    force_checks,             \* force_activity_check threads still sleeping
    is_active,                \* ActivityMonitor.is_active
    monitor_running,          \* ActivityMonitor.running
    last_activity_age,        \* time.time() - last_activity_time, as a band
    activity_threads,         \* spawned on_activity threads not yet run
    inactivity_threads,       \* spawned on_inactivity threads not yet run
    send_threads,             \* _send threads started and not yet returned
    state_info,               \* the dict _get_state_info is returning
    last_event                \* the latest of: kind of the request handed
                              \* to notify(), "activity" for a run of
                              \* _on_activity; "none" before the first

coordinator == <<state, work_elapsed, rest_elapsed, pause_elapsed,
                 rest_inactivity_elapsed, is_currently_inactive>>

monitor == <<is_active, monitor_running, last_activity_age,
             activity_threads, inactivity_threads>>

main_thread == <<tick_pc, delta, notified>>

save_thread == <<save_pc, new_values>>

vars == <<state, work_elapsed, rest_elapsed, pause_elapsed,
          rest_inactivity_elapsed, is_currently_inactive, config, state_lock,
          running, tick_pc, delta, notified, save_pc, new_values,
          force_checks, is_active,
          monitor_running, last_activity_age, activity_threads,
          inactivity_threads, send_threads, state_info, last_event>>

(***************************************************************************)
(* Bounds of the model.                                                    *)
(***************************************************************************)
\* largest number of minutes a duration field is given
MaxMinutes == 2
\* seconds counted per configured minute (60 in the source, scaled down)
SecondsPerMinute == 1
\* largest measured delta of one tick, in seconds
MaxDelta == 2
\* most callback threads of one kind spawned and not yet run
MaxThreads == 1
\* most force_activity_check threads sleeping at once
MaxForceChecks == 1
\* most _send threads counted as still delivering (more are not counted)
MaxSends == 1

(***************************************************************************)
(* Constants of the program.                                               *)
(***************************************************************************)
STATE_IDLE == "idle"
STATE_WORKING == "working"
STATE_WORK_PAUSED == "paused"
STATE_WAIT_REST == "wait_rest"
STATE_RESTING == "resting"

CycleStates == {STATE_IDLE, STATE_WORKING, STATE_WORK_PAUSED,
                STATE_WAIT_REST, STATE_RESTING}

\* the dicts ConfigWindow._save passes to _save_config: every key present,
\* durations already converted by int(); one with the largest durations,
\* one with durations Config.update clamps to one minute
NewValues ==
    {[work_minutes |-> MaxMinutes, rest_minutes |-> MaxMinutes,
      auto_rest_minutes |-> MaxMinutes,
      msg_rest |-> "rest_a", msg_work |-> "work_a"],
     [work_minutes |-> 0, rest_minutes |-> -1, auto_rest_minutes |-> 0,
      msg_rest |-> "rest_b", msg_work |-> "work_b"]}

\* no dict: the thread is not inside _save_config
NoValues == [none |-> TRUE]

\* no call of _get_state_info is returning
NoInfo == [none |-> TRUE]

\* what the user has typed into the fields when Save is pressed with a
\* duration that int() does not accept; a text is the sequence of its
\* characters
BadValues ==
    {[work_minutes |-> <<"a", "b", "c">>, rest_minutes |-> <<"1">>,
      auto_rest_minutes |-> <<"1">>,
      msg_rest |-> "rest_a", msg_work |-> "work_a"],
     [work_minutes |-> <<"2">>, rest_minutes |-> <<"-", "1">>,
      auto_rest_minutes |-> <<>>,
      msg_rest |-> "rest_b", msg_work |-> "work_b"]}

Digits == {"0", "1", "2", "3", "4", "5", "6", "7", "8", "9"}

DigitValue(c) ==
    CASE c = "0" -> 0 [] c = "1" -> 1 [] c = "2" -> 2 [] c = "3" -> 3
      [] c = "4" -> 4 [] c = "5" -> 5 [] c = "6" -> 6 [] c = "7" -> 7
      [] c = "8" -> 8 [] c = "9" -> 9

\* int(text) returns (does not raise ValueError): an optional sign and at
\* least one digit (surrounding blanks and underscores are left out)
int_accepts(text) ==
    LET digits == IF Len(text) > 0 /\ text[1] \in {"-", "+"}
                  THEN Tail(text) ELSE text
    IN /\ Len(digits) > 0
       /\ \A i \in 1..Len(digits) : digits[i] \in Digits

RECURSIVE digits_value(_)
digits_value(digits) ==
    IF Len(digits) = 0 THEN 0
    ELSE 10 * digits_value(SubSeq(digits, 1, Len(digits) - 1))
         + DigitValue(digits[Len(digits)])

\* the value int(text) returns when it accepts the text
int(text) ==
    IF text[1] = "-" THEN 0 - digits_value(Tail(text))
    ELSE IF text[1] = "+" THEN digits_value(Tail(text))
    ELSE digits_value(text)

\* measured deltas of a tick
Deltas == 1..MaxDelta

\* bands of time.time() - last_activity_time against the two thresholds:
\* inactivity_threshold (3.0 s) and the force check's window (5.0 s)
AGE_RECENT == "lt_3s"
AGE_INACTIVE == "ge_3s_lt_5s"
AGE_OLD == "ge_5s"

Max(a, b) == IF a >= b THEN a ELSE b

Min(a, b) == IF a <= b THEN a ELSE b

\* what config.json holds at start: a dict saved by an earlier run
StoredConfigs ==
    {[work_minutes |-> Max(1, nv.work_minutes),
      rest_minutes |-> Max(1, nv.rest_minutes),
      auto_rest_minutes |-> Max(1, nv.auto_rest_minutes),
      msg_rest |-> nv.msg_rest, msg_work |-> nv.msg_work] : nv \in NewValues}

\* the three notification requests of _main_loop (titles and the fixed
\* auto-rest text are written here without their accents and inverted marks)
RestNotification ==
    [audio_type |-> "rest", title |-> "Hora de descansar!",
     message |-> config.msg_rest]

AutoRestNotification ==
    [audio_type |-> "auto_rest", title |-> "Descanso automatico",
     message |-> "Has estado inactivo. Iniciando descanso automatico."]

WorkNotification ==
    [audio_type |-> "work", title |-> "Descanso terminado!",
     message |-> config.msg_work]

(***************************************************************************)
(* Initial state: Observer.__init__ has run; Config() holds what           *)
(* config.json held (written by an earlier Config.save).                   *)
(***************************************************************************)
Init ==
    /\ state = STATE_IDLE
    /\ work_elapsed = 0
    /\ rest_elapsed = 0
    /\ pause_elapsed = 0
    /\ rest_inactivity_elapsed = 0
    /\ is_currently_inactive = FALSE
    /\ config \in StoredConfigs
    /\ state_lock = "free"
    /\ running = FALSE
    /\ tick_pc = "not_started"
    /\ delta = 0
    /\ notified = <<>>
    /\ save_pc = "idle"
    /\ new_values = NoValues
    /\ force_checks = 0
    /\ is_active = FALSE
    /\ monitor_running = FALSE
    /\ last_activity_age = AGE_RECENT
    /\ activity_threads = 0
    /\ inactivity_threads = 0
    /\ send_threads = 0
    /\ state_info = NoInfo
    /\ last_event = "none"

(***************************************************************************)
(* Observer.start / Observer.stop                                          *)
(***************************************************************************)
Start ==
    /\ tick_pc = "not_started"
    /\ running' = TRUE
    /\ monitor_running' = TRUE
    /\ last_activity_age' = AGE_RECENT
    /\ tick_pc' = "while_running"
    /\ UNCHANGED <<coordinator, config, state_lock, delta, notified, save_thread,
                   force_checks, send_threads, state_info, is_active, activity_threads,
                   inactivity_threads>>
    /\ UNCHANGED last_event

\* ActivityMonitor.start fails.  Either an exception leaves it (a listener
\* cannot be created or started): it passes through Observer.start, which
\* has set running and has not yet created the main loop thread or the
\* tray, and through main(), and the program ends.  Or start returns and
\* the listeners die on their own threads: no raw input is ever delivered.
StartMonitorFails(raised) ==
    /\ tick_pc = "not_started"
    /\ running' = TRUE
    /\ monitor_running' = FALSE
    /\ last_activity_age' = AGE_RECENT
    /\ tick_pc' = IF raised THEN "start_failed" ELSE "while_running"
    /\ UNCHANGED <<coordinator, config, state_lock, delta, notified,
                   save_thread, force_checks, send_threads, state_info,
                   is_active, activity_threads, inactivity_threads>>
    /\ UNCHANGED last_event

\* the tray (TrayApp.run, after the main loop thread is started) is up: its
\* menu can quit, open the config window and poll the state
tray_up == running /\ tick_pc # "start_failed"

Stop ==
    /\ tray_up
    /\ running' = FALSE
    /\ monitor_running' = FALSE
    /\ UNCHANGED <<coordinator, config, state_lock, main_thread,
                   save_thread, force_checks, send_threads, state_info, is_active, last_activity_age,
                   activity_threads, inactivity_threads>>
    /\ UNCHANGED last_event

(***************************************************************************)
(* Observer._on_activity: the critical section under state_lock.           *)
(***************************************************************************)
on_activity_idle ==
    /\ state' = STATE_WORKING
    /\ work_elapsed' = 0
    /\ UNCHANGED <<rest_elapsed, pause_elapsed>>

\* mutant of on_activity_paused: resuming restarts the work segment
on_activity_paused_restarts ==
    /\ state' = STATE_WORKING
    /\ pause_elapsed' = 0
    /\ work_elapsed' = 0
    /\ UNCHANGED rest_elapsed

on_activity_paused ==
    /\ state' = STATE_WORKING
    /\ pause_elapsed' = 0
    /\ UNCHANGED <<work_elapsed, rest_elapsed>>

on_activity_wait_rest ==
    /\ state' = STATE_WORKING
    /\ work_elapsed' = 0
    /\ UNCHANGED <<rest_elapsed, pause_elapsed>>

\* mutant of on_activity_resting: the interrupted rest keeps its time
on_activity_resting_keeps_rest ==
    /\ state' = STATE_WORKING
    /\ work_elapsed' = 0
    /\ UNCHANGED <<rest_elapsed, pause_elapsed>>

on_activity_resting ==
    /\ state' = STATE_WORKING
    /\ work_elapsed' = 0
    /\ rest_elapsed' = 0
    /\ UNCHANGED pause_elapsed

\* mutant of on_activity: activity while working restarts the work segment
on_activity_restarts_work ==
    /\ is_currently_inactive' = FALSE
    /\ rest_inactivity_elapsed' = 0
    /\ last_event' = "activity"
    /\ CASE state = STATE_IDLE -> on_activity_idle
         [] state = STATE_WORK_PAUSED -> on_activity_paused
         [] state = STATE_WAIT_REST -> on_activity_wait_rest
         [] state = STATE_RESTING -> on_activity_resting
         [] OTHER -> /\ work_elapsed' = 0
                     /\ UNCHANGED <<state, rest_elapsed, pause_elapsed>>

on_activity ==
    /\ is_currently_inactive' = FALSE
    /\ rest_inactivity_elapsed' = 0
    /\ last_event' = "activity"
    /\ CASE state = STATE_IDLE -> on_activity_idle
         [] state = STATE_WORK_PAUSED -> on_activity_paused
         [] state = STATE_WAIT_REST -> on_activity_wait_rest
         [] state = STATE_RESTING -> on_activity_resting
         [] OTHER -> UNCHANGED <<state, work_elapsed, rest_elapsed,
                                 pause_elapsed>>

(***************************************************************************)
(* Observer._on_inactivity: the critical section under state_lock.         *)
(***************************************************************************)
on_inactivity_working ==
    /\ state' = STATE_WORK_PAUSED
    /\ pause_elapsed' = 0
    /\ UNCHANGED <<work_elapsed, rest_elapsed, rest_inactivity_elapsed>>

\* mutant of on_inactivity_wait_rest: inactivity after the prompt pauses
\* instead of starting the rest
on_inactivity_wait_rest_pauses ==
    /\ state' = STATE_WORK_PAUSED
    /\ rest_elapsed' = 0
    /\ rest_inactivity_elapsed' = 0
    /\ UNCHANGED <<work_elapsed, pause_elapsed>>

on_inactivity_wait_rest ==
    /\ state' = STATE_RESTING
    /\ rest_elapsed' = 0
    /\ rest_inactivity_elapsed' = 0
    /\ UNCHANGED <<work_elapsed, pause_elapsed>>

\* mutant of on_inactivity: inactivity of an idle cycle starts a rest
on_inactivity_rests_from_idle ==
    /\ is_currently_inactive' = TRUE
    /\ CASE state = STATE_WORKING -> on_inactivity_working
         [] state = STATE_WAIT_REST -> on_inactivity_wait_rest
         [] state = STATE_IDLE -> /\ state' = STATE_RESTING
                                  /\ UNCHANGED <<work_elapsed, rest_elapsed,
                                                 pause_elapsed,
                                                 rest_inactivity_elapsed>>
         [] OTHER -> UNCHANGED <<state, work_elapsed, rest_elapsed,
                                 pause_elapsed, rest_inactivity_elapsed>>

\* mutant of on_inactivity: the handler moves the cycle but leaves the flag
on_inactivity_keeps_flag ==
    /\ UNCHANGED is_currently_inactive
    /\ CASE state = STATE_WORKING -> on_inactivity_working
         [] state = STATE_WAIT_REST -> on_inactivity_wait_rest
         [] OTHER -> UNCHANGED <<state, work_elapsed, rest_elapsed,
                                 pause_elapsed, rest_inactivity_elapsed>>

on_inactivity ==
    /\ is_currently_inactive' = TRUE
    /\ CASE state = STATE_WORKING -> on_inactivity_working
         [] state = STATE_WAIT_REST -> on_inactivity_wait_rest
         [] OTHER -> UNCHANGED <<state, work_elapsed, rest_elapsed,
                                 pause_elapsed, rest_inactivity_elapsed>>

\* a callback thread spawned by ActivityMonitor._on_input runs _on_activity
OnActivity ==
    /\ activity_threads > 0
    /\ state_lock = "free"
    /\ on_activity
    /\ state_lock' = "on_activity"
    /\ activity_threads' = activity_threads - 1
    /\ UNCHANGED <<config, running, main_thread, save_thread,
                   force_checks, send_threads, state_info, is_active, monitor_running,
                   last_activity_age, inactivity_threads>>

\* a callback thread spawned by ActivityMonitor._check_inactivity runs
\* _on_inactivity
OnInactivity ==
    /\ inactivity_threads > 0
    /\ state_lock = "free"
    /\ on_inactivity
    /\ state_lock' = "on_inactivity"
    /\ inactivity_threads' = inactivity_threads - 1
    /\ UNCHANGED <<config, running, main_thread, save_thread,
                   force_checks, send_threads, state_info, is_active, monitor_running,
                   last_activity_age, activity_threads>>
    /\ UNCHANGED last_event

\* the end of the `with self.state_lock:` block of an edge handler
HandlerRelease ==
    /\ state_lock \in {"on_activity", "on_inactivity", "force_activity_check"}
    /\ state_lock' = "free"
    /\ UNCHANGED <<coordinator, config, running, main_thread,
                   save_thread, force_checks, send_threads, state_info, monitor>>
    /\ UNCHANGED last_event

(***************************************************************************)
(* Observer._main_loop                                                     *)
(***************************************************************************)
\* mutant of TickCheckRunning: the loop does not look at the flag
TickCheckRunning_forever ==
    /\ tick_pc = "while_running"
    /\ tick_pc' = "sleep"
    /\ UNCHANGED <<coordinator, config, state_lock, running, delta, notified,
                   save_thread, force_checks, send_threads, state_info,
                   monitor>>
    /\ UNCHANGED last_event

\* `while self.running:`
TickCheckRunning ==
    /\ tick_pc = "while_running"
    /\ tick_pc' = IF running THEN "sleep" ELSE "exited"
    /\ UNCHANGED <<coordinator, config, state_lock, running, delta, notified,
                   save_thread, force_checks, send_threads, state_info, monitor>>
    /\ UNCHANGED last_event

\* mutant of tick_working: the delta is subtracted
tick_working_subtracts ==
    LET work_target == config.work_minutes * SecondsPerMinute IN
    IF work_elapsed - delta' >= work_target
    THEN /\ state' = STATE_WAIT_REST
         /\ work_elapsed' = 0
         /\ tick_pc' = "notify_rest"
         /\ UNCHANGED <<rest_elapsed, pause_elapsed, rest_inactivity_elapsed>>
    ELSE /\ work_elapsed' = work_elapsed - delta'
         /\ tick_pc' = "unlock"
         /\ UNCHANGED <<state, rest_elapsed, pause_elapsed,
                        rest_inactivity_elapsed>>

\* mutant of tick_working: the threshold is compared with > instead of >=
tick_working_strict ==
    LET work_target == config.work_minutes * SecondsPerMinute IN
    IF work_elapsed + delta' > work_target
    THEN /\ state' = STATE_WAIT_REST
         /\ work_elapsed' = 0
         /\ tick_pc' = "notify_rest"
         /\ UNCHANGED <<rest_elapsed, pause_elapsed, rest_inactivity_elapsed>>
    ELSE /\ work_elapsed' = work_elapsed + delta'
         /\ tick_pc' = "unlock"
         /\ UNCHANGED <<state, rest_elapsed, pause_elapsed,
                        rest_inactivity_elapsed>>

\* mutant of tick_working: a tick that does not reach the target is not
\* counted
tick_working_stalls ==
    LET work_target == config.work_minutes * SecondsPerMinute IN
    IF work_elapsed + delta' >= work_target
    THEN /\ state' = STATE_WAIT_REST
         /\ work_elapsed' = 0
         /\ tick_pc' = "notify_rest"
         /\ UNCHANGED <<rest_elapsed, pause_elapsed, rest_inactivity_elapsed>>
    ELSE /\ tick_pc' = "unlock"
         /\ UNCHANGED <<state, work_elapsed, rest_elapsed, pause_elapsed,
                        rest_inactivity_elapsed>>

tick_working ==
    LET work_target == config.work_minutes * SecondsPerMinute IN
    IF work_elapsed + delta' >= work_target
    THEN /\ state' = STATE_WAIT_REST
         /\ work_elapsed' = 0
         /\ tick_pc' = "notify_rest"
         /\ UNCHANGED <<rest_elapsed, pause_elapsed, rest_inactivity_elapsed>>
    ELSE /\ work_elapsed' = work_elapsed + delta'
         /\ tick_pc' = "unlock"
         /\ UNCHANGED <<state, rest_elapsed, pause_elapsed,
                        rest_inactivity_elapsed>>

\* mutant of tick_paused: the automatic rest keeps the accumulated work time
tick_paused_keeps_work ==
    LET auto_rest_threshold == config.auto_rest_minutes * SecondsPerMinute IN
    IF pause_elapsed + delta' >= auto_rest_threshold
    THEN /\ state' = STATE_RESTING
         /\ pause_elapsed' = 0
         /\ rest_elapsed' = 0
         /\ tick_pc' = "notify_auto_rest"
         /\ UNCHANGED <<work_elapsed, rest_inactivity_elapsed>>
    ELSE /\ pause_elapsed' = pause_elapsed + delta'
         /\ tick_pc' = "unlock"
         /\ UNCHANGED <<state, work_elapsed, rest_elapsed,
                        rest_inactivity_elapsed>>

\* mutant of tick_paused: the time beyond the threshold is credited to the
\* rest that starts
tick_paused_carries_excess ==
    LET auto_rest_threshold == config.auto_rest_minutes * SecondsPerMinute IN
    IF pause_elapsed + delta' >= auto_rest_threshold
    THEN /\ state' = STATE_RESTING
         /\ work_elapsed' = 0
         /\ pause_elapsed' = 0
         /\ rest_elapsed' = pause_elapsed + delta' - auto_rest_threshold
         /\ tick_pc' = "notify_auto_rest"
         /\ UNCHANGED rest_inactivity_elapsed
    ELSE /\ pause_elapsed' = pause_elapsed + delta'
         /\ tick_pc' = "unlock"
         /\ UNCHANGED <<state, work_elapsed, rest_elapsed,
                        rest_inactivity_elapsed>>

\* mutant of tick_paused: work time keeps counting during the pause
tick_paused_counts_work ==
    LET auto_rest_threshold == config.auto_rest_minutes * SecondsPerMinute IN
    IF pause_elapsed + delta' >= auto_rest_threshold
    THEN /\ state' = STATE_RESTING
         /\ work_elapsed' = 0
         /\ pause_elapsed' = 0
         /\ rest_elapsed' = 0
         /\ tick_pc' = "notify_auto_rest"
         /\ UNCHANGED rest_inactivity_elapsed
    ELSE /\ pause_elapsed' = pause_elapsed + delta'
         /\ work_elapsed' = work_elapsed + delta'
         /\ tick_pc' = "unlock"
         /\ UNCHANGED <<state, rest_elapsed, rest_inactivity_elapsed>>

tick_paused ==
    LET auto_rest_threshold == config.auto_rest_minutes * SecondsPerMinute IN
    IF pause_elapsed + delta' >= auto_rest_threshold
    THEN /\ state' = STATE_RESTING
         /\ work_elapsed' = 0
         /\ pause_elapsed' = 0
         /\ rest_elapsed' = 0
         /\ tick_pc' = "notify_auto_rest"
         /\ UNCHANGED rest_inactivity_elapsed
    ELSE /\ pause_elapsed' = pause_elapsed + delta'
         /\ tick_pc' = "unlock"
         /\ UNCHANGED <<state, work_elapsed, rest_elapsed,
                        rest_inactivity_elapsed>>

\* mutant of tick_resting: the end of the rest is announced only to a user
\* who is back
tick_resting_notifies_if_active ==
    LET rest_target == config.rest_minutes * SecondsPerMinute IN
    IF rest_elapsed + delta' >= rest_target
    THEN /\ state' = STATE_IDLE
         /\ work_elapsed' = 0
         /\ rest_elapsed' = 0
         /\ rest_inactivity_elapsed' = 0
         /\ tick_pc' = IF is_currently_inactive THEN "unlock"
                       ELSE "notify_work"
         /\ UNCHANGED pause_elapsed
    ELSE /\ rest_elapsed' = rest_elapsed + delta'
         /\ rest_inactivity_elapsed' =
                IF is_currently_inactive
                THEN rest_inactivity_elapsed + delta'
                ELSE rest_inactivity_elapsed
         /\ tick_pc' = "unlock"
         /\ UNCHANGED <<state, work_elapsed, pause_elapsed>>

tick_resting ==
    LET rest_target == config.rest_minutes * SecondsPerMinute IN
    IF rest_elapsed + delta' >= rest_target
    THEN /\ state' = STATE_IDLE
         /\ work_elapsed' = 0
         /\ rest_elapsed' = 0
         /\ rest_inactivity_elapsed' = 0
         /\ tick_pc' = "notify_work"
         /\ UNCHANGED pause_elapsed
    ELSE /\ rest_elapsed' = rest_elapsed + delta'
         /\ rest_inactivity_elapsed' =
                IF is_currently_inactive
                THEN rest_inactivity_elapsed + delta'
                ELSE rest_inactivity_elapsed
         /\ tick_pc' = "unlock"
         /\ UNCHANGED <<state, work_elapsed, pause_elapsed>>

\* mutant of tick_other: a tick in wait_rest starts the rest by itself
tick_other_starts_rest ==
    /\ tick_pc' = "unlock"
    /\ state' = IF state = STATE_WAIT_REST THEN STATE_RESTING ELSE state
    /\ UNCHANGED <<work_elapsed, rest_elapsed, pause_elapsed,
                   rest_inactivity_elapsed>>

tick_other ==
    /\ tick_pc' = "unlock"
    /\ UNCHANGED <<state, work_elapsed, rest_elapsed, pause_elapsed,
                   rest_inactivity_elapsed>>

\* time.sleep(1); delta = current_time - last_tick; then
\* `with self.state_lock:` up to the call of notify_* (or to the end)
TickBody(d) ==
    /\ tick_pc = "sleep"
    /\ state_lock = "free"
    /\ state_lock' = "main_loop"
    /\ delta' = d
    /\ CASE state = STATE_WORKING -> tick_working
         [] state = STATE_WORK_PAUSED -> tick_paused
         [] state = STATE_RESTING -> tick_resting
         [] OTHER -> tick_other
    /\ UNCHANGED <<is_currently_inactive, config, running, notified,
                   save_thread, force_checks, send_threads, state_info, monitor>>
    /\ UNCHANGED last_event

\* mutant of notify: the request is delivered on the calling thread, after
\* the delivery before it has returned
notify_on_caller(request) ==
    /\ send_threads = 0
    /\ notified' = Append(notified, request)
    /\ send_threads' = Min(send_threads + 1, MaxSends)
    /\ last_event' = request.audio_type

\* NotificationManager.notify: starts a _send thread for the request and
\* returns
notify(request) ==
    /\ notified' = Append(notified, request)
    /\ send_threads' = Min(send_threads + 1, MaxSends)
    /\ last_event' = request.audio_type

\* a _send thread returns: the audio was played and the notification shown,
\* or an exception of the delivery was caught and printed.  A delivery that
\* never completes is a _send thread that never takes this step.
SendReturns ==
    /\ send_threads > 0
    /\ send_threads' = send_threads - 1
    /\ UNCHANGED <<coordinator, config, state_lock, running, main_thread,
                   save_thread, force_checks, monitor, state_info>>
    /\ UNCHANGED last_event

\* self.notifications.notify_rest / notify_auto_rest / notify_work, called
\* inside the `with self.state_lock:` block
TickNotify ==
    /\ state_lock = "main_loop"
    /\ CASE tick_pc = "notify_rest" -> notify(RestNotification)
         [] tick_pc = "notify_auto_rest" -> notify(AutoRestNotification)
         [] tick_pc = "notify_work" -> notify(WorkNotification)
         [] OTHER -> FALSE
    /\ tick_pc' = "unlock"
    /\ UNCHANGED <<coordinator, config, state_lock, running, delta, save_thread,
                   force_checks, monitor, state_info>>

\* the end of the `with self.state_lock:` block; back to `while self.running`
TickRelease ==
    /\ tick_pc = "unlock"
    /\ state_lock = "main_loop"
    /\ state_lock' = "free"
    /\ tick_pc' = "while_running"
    /\ delta' = 0
    /\ notified' = <<>>
    /\ UNCHANGED <<coordinator, config, running, save_thread, force_checks, send_threads, state_info,
                   monitor>>
    /\ UNCHANGED last_event

(***************************************************************************)
(* Observer._get_state_info, called by the tray thread (TrayApp) to draw   *)
(* the icon and the menu.                                                  *)
(***************************************************************************)
\* the dict built inside `with self.state_lock:`
get_state_info ==
    [state |-> state,
     work_elapsed |-> work_elapsed,
     work_total |-> config.work_minutes * SecondsPerMinute,
     rest_elapsed |-> rest_elapsed,
     rest_total |-> config.rest_minutes * SecondsPerMinute]

\* mutant of Snapshot: the elapsed time is brought up to date in place
\* before it is reported
Snapshot_advances ==
    /\ tray_up
    /\ state_lock = "free"
    /\ state_lock' = "get_state_info"
    /\ work_elapsed' = IF state = STATE_WORKING
                       THEN work_elapsed + 1 ELSE work_elapsed
    /\ UNCHANGED <<state, rest_elapsed, pause_elapsed,
                   rest_inactivity_elapsed, is_currently_inactive, config,
                   running, main_thread, save_thread, force_checks,
                   send_threads, monitor>>
    /\ state_info' = get_state_info'
    /\ UNCHANGED last_event

\* _get_state_info takes state_lock and builds the dict
Snapshot ==
    /\ tray_up
    /\ state_lock = "free"
    /\ state_lock' = "get_state_info"
    /\ state_info' = get_state_info
    /\ UNCHANGED <<coordinator, config, running, main_thread, save_thread,
                   force_checks, send_threads, monitor>>
    /\ UNCHANGED last_event

\* the dict is returned and the `with` block left
SnapshotRelease ==
    /\ state_lock = "get_state_info"
    /\ state_lock' = "free"
    /\ state_info' = NoInfo
    /\ UNCHANGED <<coordinator, config, running, main_thread, save_thread,
                   force_checks, send_threads, monitor>>
    /\ UNCHANGED last_event

(***************************************************************************)
(* Observer._save_config, called by ConfigWindow._save with all five keys. *)
(* Config.update assigns the fields one by one, outside state_lock;        *)
(* Config.save then writes the file; only then is the lock taken.          *)
(***************************************************************************)
\* _save_config(new_config) is entered;
\* self.work_minutes = max(1, int(new_values["work_minutes"]))
UpdateWorkMinutes(nv) ==
    /\ save_pc = "idle"
    /\ tray_up
    /\ new_values' = nv
    /\ config' = [config EXCEPT !.work_minutes = Max(1, nv.work_minutes)]
    /\ save_pc' = "rest_minutes"
    /\ UNCHANGED <<coordinator, state_lock, running, main_thread,
                   force_checks, send_threads, state_info, monitor>>
    /\ UNCHANGED last_event

\* self.rest_minutes = max(1, int(new_values["rest_minutes"]))
UpdateRestMinutes ==
    /\ save_pc = "rest_minutes"
    /\ config' = [config EXCEPT !.rest_minutes =
                                    Max(1, new_values.rest_minutes)]
    /\ save_pc' = "auto_rest_minutes"
    /\ UNCHANGED <<coordinator, state_lock, running, main_thread, new_values,
                   force_checks, send_threads, state_info, monitor>>
    /\ UNCHANGED last_event

\* self.auto_rest_minutes = max(1, int(new_values["auto_rest_minutes"]))
UpdateAutoRestMinutes ==
    /\ save_pc = "auto_rest_minutes"
    /\ config' = [config EXCEPT !.auto_rest_minutes =
                                    Max(1, new_values.auto_rest_minutes)]
    /\ save_pc' = "msg_rest"
    /\ UNCHANGED <<coordinator, state_lock, running, main_thread, new_values,
                   force_checks, send_threads, state_info, monitor>>
    /\ UNCHANGED last_event

\* self.msg_rest = str(new_values["msg_rest"])
UpdateMsgRest ==
    /\ save_pc = "msg_rest"
    /\ config' = [config EXCEPT !.msg_rest = new_values.msg_rest]
    /\ save_pc' = "msg_work"
    /\ UNCHANGED <<coordinator, state_lock, running, main_thread, new_values,
                   force_checks, send_threads, state_info, monitor>>
    /\ UNCHANGED last_event

\* self.msg_work = str(new_values["msg_work"]); then self.config.save()
UpdateMsgWork ==
    /\ save_pc = "msg_work"
    /\ config' = [config EXCEPT !.msg_work = new_values.msg_work]
    /\ save_pc' = "reset"
    /\ UNCHANGED <<coordinator, state_lock, running, main_thread, new_values,
                   force_checks, send_threads, state_info, monitor>>
    /\ UNCHANGED last_event

\* mutant of SaveRejected: each duration is converted and assigned on its
\* own, so the fields before the one that fails are already replaced
SaveRejected_partial(typed) ==
    /\ save_pc = "idle"
    /\ tray_up
    /\ \/ ~int_accepts(typed.work_minutes)
       \/ ~int_accepts(typed.rest_minutes)
       \/ ~int_accepts(typed.auto_rest_minutes)
    /\ save_pc' = "rejected"
    /\ config' = IF int_accepts(typed.work_minutes)
                 THEN [config EXCEPT
                           !.work_minutes = Max(1, int(typed.work_minutes))]
                 ELSE config
    /\ UNCHANGED <<coordinator, state_lock, running, main_thread,
                   new_values, force_checks, send_threads, state_info, monitor>>
    /\ UNCHANGED last_event

\* ConfigWindow._save when one of the three int() conversions raises
\* ValueError: the dict is never built, save_callback is not called, the
\* except branch prints the error
SaveRejected(typed) ==
    /\ save_pc = "idle"
    /\ tray_up
    /\ \/ ~int_accepts(typed.work_minutes)
       \/ ~int_accepts(typed.rest_minutes)
       \/ ~int_accepts(typed.auto_rest_minutes)
    /\ save_pc' = "rejected"
    /\ UNCHANGED <<coordinator, config, state_lock, running, main_thread,
                   new_values, force_checks, send_threads, state_info, monitor>>
    /\ UNCHANGED last_event

\* `finally: self._close()` after the except branch
CloseRejected ==
    /\ save_pc = "rejected"
    /\ save_pc' = "idle"
    /\ UNCHANGED <<coordinator, config, state_lock, running, main_thread,
                   new_values, force_checks, send_threads, state_info, monitor>>
    /\ UNCHANGED last_event

\* mutant of reset_cycle: the inactivity flag survives the reset
reset_cycle_keeps_flag ==
    /\ state' = STATE_IDLE
    /\ work_elapsed' = 0
    /\ rest_elapsed' = 0
    /\ pause_elapsed' = 0
    /\ rest_inactivity_elapsed' = 0
    /\ UNCHANGED is_currently_inactive

\* the body of `with self.state_lock:` in _save_config
reset_cycle ==
    /\ state' = STATE_IDLE
    /\ work_elapsed' = 0
    /\ rest_elapsed' = 0
    /\ pause_elapsed' = 0
    /\ rest_inactivity_elapsed' = 0
    /\ is_currently_inactive' = FALSE

ResetCycle ==
    /\ save_pc = "reset"
    /\ force_checks < MaxForceChecks
    /\ state_lock = "free"
    /\ reset_cycle
    /\ state_lock' = "save_config"
    /\ save_pc' = "spawn"
    /\ UNCHANGED <<config, running, main_thread, new_values, force_checks, send_threads, state_info,
                   monitor>>
    /\ UNCHANGED last_event

\* the lock is released and the force_activity_check thread is started
SpawnForceCheck ==
    /\ save_pc = "spawn"
    /\ state_lock = "save_config"
    /\ state_lock' = "free"
    /\ force_checks' = force_checks + 1
    /\ save_pc' = "idle"
    /\ new_values' = NoValues
    /\ UNCHANGED <<coordinator, config, running, main_thread, monitor,
                   send_threads, state_info>>
    /\ UNCHANGED last_event

\* mutant of ForceActivityCheck: _on_activity is called whatever the age of
\* the last raw input
ForceActivityCheck_always ==
    /\ force_checks > 0
    /\ force_checks' = force_checks - 1
    /\ state_lock = "free"
    /\ on_activity
    /\ state_lock' = "force_activity_check"
    /\ UNCHANGED <<config, running, main_thread, save_thread, monitor,
                   send_threads, state_info>>

\* force_activity_check after its sleep: activity in the last 5 seconds
\* makes it call self._on_activity()
ForceActivityCheck ==
    /\ force_checks > 0
    /\ force_checks' = force_checks - 1
    /\ IF last_activity_age # AGE_OLD
       THEN /\ state_lock = "free"
            /\ on_activity
            /\ state_lock' = "force_activity_check"
       ELSE UNCHANGED <<coordinator, state_lock, last_event>>
    /\ UNCHANGED <<config, running, main_thread, save_thread, monitor,
                   send_threads, state_info>>

(***************************************************************************)
(* ActivityMonitor                                                         *)
(***************************************************************************)
\* mutant of OnInput: every raw event raises the activity callback
OnInput_every_event ==
    /\ monitor_running
    /\ last_activity_age' = AGE_RECENT
    /\ activity_threads < MaxThreads
    /\ is_active' = TRUE
    /\ activity_threads' = activity_threads + 1
    /\ UNCHANGED <<coordinator, config, state_lock, running, main_thread,
                   save_thread, force_checks, send_threads, state_info, monitor_running,
                   inactivity_threads>>
    /\ UNCHANGED last_event

\* _on_input: a raw mouse or keyboard event
OnInput ==
    /\ monitor_running
    /\ last_activity_age' = AGE_RECENT
    /\ IF ~is_active
       THEN /\ activity_threads < MaxThreads
            /\ is_active' = TRUE
            /\ activity_threads' = activity_threads + 1
       ELSE UNCHANGED <<is_active, activity_threads>>
    /\ UNCHANGED <<coordinator, config, state_lock, running, main_thread, save_thread, force_checks, send_threads, state_info, monitor_running,
                   inactivity_threads>>
    /\ UNCHANGED last_event

\* one pass of _check_inactivity that finds the threshold exceeded
CheckInactivity ==
    /\ monitor_running
    /\ is_active
    /\ last_activity_age # AGE_RECENT
    /\ inactivity_threads < MaxThreads
    /\ is_active' = FALSE
    /\ inactivity_threads' = inactivity_threads + 1
    /\ UNCHANGED <<coordinator, config, state_lock, running, main_thread, save_thread, force_checks, send_threads, state_info, monitor_running,
                   last_activity_age, activity_threads>>
    /\ UNCHANGED last_event

\* time passes without raw input
TimePasses ==
    /\ last_activity_age # AGE_OLD
    /\ last_activity_age' =
           IF last_activity_age = AGE_RECENT THEN AGE_INACTIVE ELSE AGE_OLD
    /\ UNCHANGED <<coordinator, config, state_lock, running, main_thread, save_thread, force_checks, send_threads, state_info, is_active, monitor_running,
                   activity_threads, inactivity_threads>>
    /\ UNCHANGED last_event

(***************************************************************************)
(* The program                                                             *)
(***************************************************************************)
Next ==
    \/ Start
    \/ \E raised \in BOOLEAN : StartMonitorFails(raised)
    \/ Stop
    \/ OnInput
    \/ CheckInactivity
    \/ TimePasses
    \/ OnActivity
    \/ OnInactivity
    \/ HandlerRelease
    \/ TickCheckRunning
    \/ \E d \in Deltas : TickBody(d)
    \/ TickNotify
    \/ TickRelease
    \/ SendReturns
    \/ Snapshot
    \/ SnapshotRelease
    \/ \E typed \in BadValues : SaveRejected(typed)
    \/ CloseRejected
    \/ \E nv \in NewValues : UpdateWorkMinutes(nv)
    \/ UpdateRestMinutes
    \/ UpdateAutoRestMinutes
    \/ UpdateMsgRest
    \/ UpdateMsgWork
    \/ ResetCycle
    \/ SpawnForceCheck
    \/ ForceActivityCheck

Spec == Init /\ [][Next]_vars

(***************************************************************************)
(* The program started on any config.json: Config.load copies every key    *)
(* of the file into the dataclass as it finds it.  The file is the one an  *)
(* earlier Config.save wrote, or one written by hand or by another program *)
(* (here: with durations below 1).                                         *)
(***************************************************************************)
\* what config.json may hold: a JSON object with the five keys
StoreContents == StoredConfigs \cup NewValues

\* Config.load: self.<key> = data.get(<key>, self.<key>), key by key
load(data) ==
    [work_minutes |-> data.work_minutes,
     rest_minutes |-> data.rest_minutes,
     auto_rest_minutes |-> data.auto_rest_minutes,
     msg_rest |-> data.msg_rest,
     msg_work |-> data.msg_work]

InitStore ==
    /\ state = STATE_IDLE
    /\ work_elapsed = 0
    /\ rest_elapsed = 0
    /\ pause_elapsed = 0
    /\ rest_inactivity_elapsed = 0
    /\ is_currently_inactive = FALSE
    /\ config \in {load(data) : data \in StoreContents}
    /\ state_lock = "free"
    /\ running = FALSE
    /\ tick_pc = "not_started"
    /\ delta = 0
    /\ notified = <<>>
    /\ save_pc = "idle"
    /\ new_values = NoValues
    /\ force_checks = 0
    /\ is_active = FALSE
    /\ monitor_running = FALSE
    /\ last_activity_age = AGE_RECENT
    /\ activity_threads = 0
    /\ inactivity_threads = 0
    /\ send_threads = 0
    /\ state_info = NoInfo
    /\ last_event = "none"

SpecStore == InitStore /\ [][Next]_vars

(***************************************************************************)
(* The program under fair scheduling: the main loop thread is scheduled    *)
(* (time.sleep(1) returns, and a state_lock that stays free is acquired),  *)
(* and every thread that holds state_lock gets to the end of its `with`    *)
(* block.                                                                  *)
(***************************************************************************)
\* the next step of the main loop thread
MainLoopStep ==
    \/ TickCheckRunning
    \/ \E d \in Deltas : TickBody(d)
    \/ TickNotify
    \/ TickRelease

\* the thread that holds state_lock (other than the main loop) leaves its
\* `with` block
LockRelease == HandlerRelease \/ SpawnForceCheck \/ SnapshotRelease

SpecFair == Spec /\ WF_vars(MainLoopStep) /\ WF_vars(LockRelease)

(***************************************************************************)
(* Steps of the handlers, as seen on the variables.                        *)
(***************************************************************************)
\* the main loop takes state_lock and runs the body of one tick
TickStep == tick_pc = "sleep" /\ tick_pc' # "sleep"

\* _on_activity runs (from a callback thread or from force_activity_check)
ActivityStep ==
    /\ state_lock = "free"
    /\ state_lock' \in {"on_activity", "force_activity_check"}

\* _on_inactivity runs
InactivityStep == state_lock = "free" /\ state_lock' = "on_inactivity"

\* _save_config resets the cycle
ResetStep == state_lock = "free" /\ state_lock' = "save_config"

\* Config.update has assigned at least one field and the cycle is not yet
\* reset
UpdateInProgress ==
    save_pc \in {"rest_minutes", "auto_rest_minutes", "msg_rest", "msg_work",
                 "reset"}

\* the main loop hands a request to NotificationManager.notify
NotifyStep == Len(notified') > Len(notified)

\* _get_state_info runs
SnapshotStep == state_lock = "free" /\ state_lock' = "get_state_info"

\* a _send thread returns
SendStep == send_threads' < send_threads

\* every callback thread the monitor has spawned has run its handler to the
\* end, and no config update or force check is under way
AllEdgesHandled ==
    /\ activity_threads = 0
    /\ inactivity_threads = 0
    /\ state_lock = "free"
    /\ save_pc = "idle"
    /\ force_checks = 0

\* the monitor raises an edge: it starts a thread for on_activity
\* (resp. on_inactivity)
RaiseActivity == activity_threads' > activity_threads

RaiseInactivity == inactivity_threads' > inactivity_threads

\* a force_activity_check thread wakes up and decides
ForceStep == force_checks' < force_checks

\* force_activity_check calls _on_activity
SynthesizedStep ==
    state_lock = "free" /\ state_lock' = "force_activity_check"

(***************************************************************************)
(* C1: in every reachable state the cycle state is one of the five values  *)
(* idle, working, paused, wait_rest, resting, and the four elapsed         *)
(* counters are integers >= 0.                                             *)
(***************************************************************************)
C1_StateAndCountersValid ==
    /\ state \in CycleStates
    /\ work_elapsed \in Int /\ work_elapsed >= 0
    /\ rest_elapsed \in Int /\ rest_elapsed >= 0
    /\ pause_elapsed \in Int /\ pause_elapsed >= 0
    /\ rest_inactivity_elapsed \in Int /\ rest_inactivity_elapsed >= 0

\* a paused cycle with work and pause time accumulated while a config
\* update is under way: ticks, both edges and an update have interleaved
C1_Witness ==
    /\ state = STATE_WORK_PAUSED
    /\ work_elapsed > 0
    /\ pause_elapsed > 0
    /\ UpdateInProgress

(***************************************************************************)
(* C2: tick, edge handlers and config update are serialized by one         *)
(* exclusion: between the config update's first assignment to Config and   *)
(* its reset of the cycle no tick and no edge handler runs (so no tick     *)
(* reads a Config that is partly replaced, or a new Config together with   *)
(* counters accumulated under the previous one).                           *)
(***************************************************************************)
C2_UpdateExcludesHandlers ==
    [][UpdateInProgress => ~(TickStep \/ ActivityStep \/ InactivityStep)]_vars

(***************************************************************************)
(* C3: a tick in working adds delta to work_elapsed; while the sum stays   *)
(* below work_minutes * SecondsPerMinute the state stays working and the   *)
(* tick hands nothing to the notification manager; the first tick whose    *)
(* sum reaches the target moves to wait_rest, resets work_elapsed to 0 and *)
(* hands over exactly one rest notification carrying config.msg_rest; a    *)
(* rest notification is handed over by no other step.                      *)
(***************************************************************************)
C3_WorkTick ==
    [][(TickStep /\ state = STATE_WORKING) =>
         IF work_elapsed + delta' < config.work_minutes * SecondsPerMinute
         THEN /\ state' = STATE_WORKING
              /\ work_elapsed' = work_elapsed + delta'
              /\ tick_pc' = "unlock"
              /\ notified' = <<>>
         ELSE /\ state' = STATE_WAIT_REST
              /\ work_elapsed' = 0
              /\ tick_pc' = "notify_rest"
              /\ notified' = <<>>]_vars

C3_RestNotifiedOnce ==
    [][/\ (tick_pc = "notify_rest" /\ tick_pc' # tick_pc) =>
            /\ notified' = <<[audio_type |-> "rest",
                              title |-> "Hora de descansar!",
                              message |-> config.msg_rest]>>
            /\ tick_pc' = "unlock"
            /\ state' = STATE_WAIT_REST
       /\ (/\ notified' # notified
           /\ \E i \in 1..Len(notified') : notified'[i].audio_type = "rest")
            => tick_pc = "notify_rest"]_vars

\* C3: the tick in working and its single rest notification, together
C3_RestAfterWork == C3_WorkTick /\ C3_RestNotifiedOnce

\* the rest notification has been handed over by a tick whose own delta
\* was below the target: the target was reached by accumulation
C3_Witness ==
    /\ state = STATE_WAIT_REST
    /\ work_elapsed = 0
    /\ tick_pc = "unlock"
    /\ Len(notified) = 1
    /\ notified[1].audio_type = "rest"
    /\ notified[1].message = config.msg_rest
    /\ save_pc = "idle"
    /\ delta < config.work_minutes * SecondsPerMinute

(***************************************************************************)
(* C4: a tick in paused adds delta to pause_elapsed; below                 *)
(* auto_rest_minutes * SecondsPerMinute the state stays paused and nothing *)
(* is handed over; the first tick that reaches the threshold moves         *)
(* directly to resting (never to wait_rest), sets work_elapsed,            *)
(* pause_elapsed and rest_elapsed to 0 and hands over exactly one          *)
(* auto_rest notification with the fixed message.                          *)
(***************************************************************************)
C4_PausedTick ==
    [][(TickStep /\ state = STATE_WORK_PAUSED) =>
         IF pause_elapsed + delta' <
                config.auto_rest_minutes * SecondsPerMinute
         THEN /\ state' = STATE_WORK_PAUSED
              /\ pause_elapsed' = pause_elapsed + delta'
              /\ tick_pc' = "unlock"
              /\ notified' = <<>>
         ELSE /\ state' = STATE_RESTING
              /\ work_elapsed' = 0
              /\ pause_elapsed' = 0
              /\ rest_elapsed' = 0
              /\ tick_pc' = "notify_auto_rest"
              /\ notified' = <<>>]_vars

C4_AutoRestNotifiedOnce ==
    [][/\ (tick_pc = "notify_auto_rest" /\ tick_pc' # tick_pc) =>
            /\ notified' =
                 <<[audio_type |-> "auto_rest",
                    title |-> "Descanso automatico",
                    message |->
                      "Has estado inactivo. Iniciando descanso automatico."]>>
            /\ tick_pc' = "unlock"
            /\ state' = STATE_RESTING
       /\ (/\ notified' # notified
           /\ \E i \in 1..Len(notified') :
                  notified'[i].audio_type = "auto_rest")
            => tick_pc = "notify_auto_rest"]_vars

\* C4: the tick in paused and its single auto_rest notification, together
C4_AutoRestAfterPause == C4_PausedTick /\ C4_AutoRestNotifiedOnce

\* the auto-rest notification has been handed over after pause time
\* accumulated over more than one tick
C4_Witness ==
    /\ state = STATE_RESTING
    /\ work_elapsed = 0 /\ pause_elapsed = 0 /\ rest_elapsed = 0
    /\ tick_pc = "unlock"
    /\ Len(notified) = 1
    /\ notified[1].audio_type = "auto_rest"
    /\ save_pc = "idle"
    /\ delta < config.auto_rest_minutes * SecondsPerMinute

(***************************************************************************)
(* C5: a tick in resting adds delta to rest_elapsed; the first tick that   *)
(* reaches rest_minutes * SecondsPerMinute moves to idle, sets             *)
(* work_elapsed, rest_elapsed and rest_inactivity_elapsed to 0 and hands   *)
(* over exactly one work ("resume") notification carrying config.msg_work; *)
(* the outcome does not depend on is_currently_inactive, which the tick    *)
(* leaves as it is.                                                        *)
(***************************************************************************)
C5_RestingTick ==
    [][(TickStep /\ state = STATE_RESTING) =>
         /\ is_currently_inactive' = is_currently_inactive
         /\ IF rest_elapsed + delta' < config.rest_minutes * SecondsPerMinute
            THEN /\ state' = STATE_RESTING
                 /\ rest_elapsed' = rest_elapsed + delta'
                 /\ tick_pc' = "unlock"
                 /\ notified' = <<>>
            ELSE /\ state' = STATE_IDLE
                 /\ work_elapsed' = 0
                 /\ rest_elapsed' = 0
                 /\ rest_inactivity_elapsed' = 0
                 /\ tick_pc' = "notify_work"
                 /\ notified' = <<>>]_vars

C5_ResumeNotifiedOnce ==
    [][/\ (tick_pc = "notify_work" /\ tick_pc' # tick_pc) =>
            /\ notified' = <<[audio_type |-> "work",
                              title |-> "Descanso terminado!",
                              message |-> config.msg_work]>>
            /\ tick_pc' = "unlock"
            /\ state' = STATE_IDLE
       /\ (/\ notified' # notified
           /\ \E i \in 1..Len(notified') : notified'[i].audio_type = "work")
            => tick_pc = "notify_work"]_vars

\* C5: the tick in resting and its single resume notification, together
C5_ResumeAfterRest == C5_RestingTick /\ C5_ResumeNotifiedOnce

\* the resume notification has been handed over with the user still away
C5_Witness ==
    /\ state = STATE_IDLE
    /\ work_elapsed = 0 /\ rest_elapsed = 0 /\ rest_inactivity_elapsed = 0
    /\ tick_pc = "unlock"
    /\ Len(notified) = 1
    /\ notified[1].audio_type = "work"
    /\ notified[1].message = config.msg_work
    /\ is_currently_inactive
    /\ save_pc = "idle"
    /\ delta < config.rest_minutes * SecondsPerMinute

(***************************************************************************)
(* C6: _on_activity, for every pre-state: idle -> working with             *)
(* work_elapsed = 0; paused -> working with pause_elapsed = 0 and          *)
(* work_elapsed kept; wait_rest -> working with work_elapsed = 0;          *)
(* resting -> working with work_elapsed = rest_elapsed = 0; working ->     *)
(* state and counters kept; always is_currently_inactive = FALSE and       *)
(* rest_inactivity_elapsed = 0 afterwards, and the post-state is working.  *)
(***************************************************************************)
C6_OnActivityTable ==
    [][ActivityStep =>
         /\ state' = STATE_WORKING
         /\ is_currently_inactive' = FALSE
         /\ rest_inactivity_elapsed' = 0
         /\ state = STATE_IDLE =>
              /\ work_elapsed' = 0
              /\ UNCHANGED <<rest_elapsed, pause_elapsed>>
         /\ state = STATE_WORK_PAUSED =>
              /\ pause_elapsed' = 0
              /\ UNCHANGED <<work_elapsed, rest_elapsed>>
         /\ state = STATE_WAIT_REST =>
              /\ work_elapsed' = 0
              /\ UNCHANGED <<rest_elapsed, pause_elapsed>>
         /\ state = STATE_RESTING =>
              /\ work_elapsed' = 0
              /\ rest_elapsed' = 0
              /\ UNCHANGED pause_elapsed
         /\ state = STATE_WORKING =>
              UNCHANGED <<work_elapsed, rest_elapsed, pause_elapsed>>]_vars

\* _on_activity has just run and resumed work with the accumulated work
\* time kept
C6_Witness ==
    /\ state_lock = "on_activity"
    /\ state = STATE_WORKING
    /\ work_elapsed > 0
    /\ pause_elapsed = 0
    /\ ~is_currently_inactive

(***************************************************************************)
(* C7: _on_inactivity, for every pre-state: working -> paused with         *)
(* pause_elapsed = 0; wait_rest -> resting with rest_elapsed = 0 and       *)
(* rest_inactivity_elapsed = 0; idle, paused and resting -> state and all  *)
(* counters kept; always is_currently_inactive = TRUE afterwards.          *)
(***************************************************************************)
C7_OnInactivityTable ==
    [][InactivityStep =>
         /\ is_currently_inactive' = TRUE
         /\ state = STATE_WORKING =>
              /\ state' = STATE_WORK_PAUSED
              /\ pause_elapsed' = 0
              /\ UNCHANGED <<work_elapsed, rest_elapsed,
                             rest_inactivity_elapsed>>
         /\ state = STATE_WAIT_REST =>
              /\ state' = STATE_RESTING
              /\ rest_elapsed' = 0
              /\ rest_inactivity_elapsed' = 0
              /\ UNCHANGED <<work_elapsed, pause_elapsed>>
         /\ state \in {STATE_IDLE, STATE_WORK_PAUSED, STATE_RESTING} =>
              UNCHANGED <<state, work_elapsed, rest_elapsed, pause_elapsed,
                          rest_inactivity_elapsed>>]_vars

\* _on_inactivity has just run after the rest prompt and started the rest
C7_Witness ==
    /\ state_lock = "on_inactivity"
    /\ state = STATE_RESTING
    /\ rest_elapsed = 0
    /\ rest_inactivity_elapsed = 0
    /\ is_currently_inactive

(***************************************************************************)
(* C8: the only changes of state are idle/paused/wait_rest/resting ->      *)
(* working by _on_activity, working -> paused and wait_rest -> resting by  *)
(* _on_inactivity, working -> wait_rest, paused -> resting and resting ->  *)
(* idle by a tick, and any state -> idle by the config update's reset; a   *)
(* tick in idle or wait_rest changes no coordinator field; from wait_rest  *)
(* the activity edge leads to working and the inactivity edge to resting.  *)
(***************************************************************************)
C8_OnlyListedTransitions ==
    [][/\ state' # state =>
            \/ /\ ActivityStep
               /\ state \in {STATE_IDLE, STATE_WORK_PAUSED, STATE_WAIT_REST,
                             STATE_RESTING}
               /\ state' = STATE_WORKING
            \/ /\ InactivityStep
               /\ <<state, state'>> \in
                    {<<STATE_WORKING, STATE_WORK_PAUSED>>,
                     <<STATE_WAIT_REST, STATE_RESTING>>}
            \/ /\ TickStep
               /\ <<state, state'>> \in
                    {<<STATE_WORKING, STATE_WAIT_REST>>,
                     <<STATE_WORK_PAUSED, STATE_RESTING>>,
                     <<STATE_RESTING, STATE_IDLE>>}
            \/ /\ ResetStep
               /\ state' = STATE_IDLE
       /\ (TickStep /\ state \in {STATE_IDLE, STATE_WAIT_REST}) =>
            UNCHANGED coordinator
       /\ (ActivityStep /\ state = STATE_WAIT_REST) => state' = STATE_WORKING
       /\ (InactivityStep /\ state = STATE_WAIT_REST) =>
            state' = STATE_RESTING]_vars

\* a tick has just run in wait_rest, well after the prompt, and the cycle
\* still waits
C8_Witness ==
    /\ state = STATE_WAIT_REST
    /\ state_lock = "main_loop"
    /\ tick_pc = "unlock"
    /\ notified = <<>>
    /\ last_activity_age = AGE_OLD

(***************************************************************************)
(* C9: while the cycle stays within working and paused, work_elapsed is    *)
(* changed only by a tick taken in working: working -> paused, paused ->   *)
(* working and every tick in paused below the auto-rest threshold leave    *)
(* work_elapsed as it was.                                                 *)
(***************************************************************************)
C9_WorkPreservedAcrossPause ==
    [][/\ (/\ state \in {STATE_WORKING, STATE_WORK_PAUSED}
           /\ state' \in {STATE_WORKING, STATE_WORK_PAUSED}
           /\ work_elapsed' # work_elapsed)
            => (TickStep /\ state = STATE_WORKING /\ state' = STATE_WORKING)
       /\ (InactivityStep /\ state = STATE_WORKING) =>
            (state' = STATE_WORK_PAUSED /\ work_elapsed' = work_elapsed)
       /\ (ActivityStep /\ state = STATE_WORK_PAUSED) =>
            (state' = STATE_WORKING /\ work_elapsed' = work_elapsed)
       /\ (TickStep /\ state = STATE_WORK_PAUSED
                    /\ state' = STATE_WORK_PAUSED) =>
            work_elapsed' = work_elapsed]_vars

\* a tick has just run in paused, below the threshold, with work time
\* accumulated before the pause
C9_Witness ==
    /\ state = STATE_WORK_PAUSED
    /\ state_lock = "main_loop"
    /\ tick_pc = "unlock"
    /\ pause_elapsed > 0
    /\ work_elapsed > 0

(***************************************************************************)
(* C10: whatever the state and the counters before, the reset of           *)
(* _save_config leaves state idle, the four elapsed counters 0 and         *)
(* is_currently_inactive FALSE, and so they are when the update completes  *)
(* and releases the lock.                                                  *)
(***************************************************************************)
C10_UpdateResetsCycle ==
    [][/\ ResetStep =>
            /\ state' = STATE_IDLE
            /\ work_elapsed' = 0
            /\ rest_elapsed' = 0
            /\ pause_elapsed' = 0
            /\ rest_inactivity_elapsed' = 0
            /\ is_currently_inactive' = FALSE
       /\ (save_pc = "spawn" /\ save_pc' = "idle") =>
            /\ state' = STATE_IDLE
            /\ work_elapsed' = 0
            /\ rest_elapsed' = 0
            /\ pause_elapsed' = 0
            /\ rest_inactivity_elapsed' = 0
            /\ is_currently_inactive' = FALSE]_vars

\* the reset is due on a paused cycle, the user away, with work and pause
\* time accumulated
C10_Witness ==
    /\ save_pc = "reset"
    /\ state_lock = "free"
    /\ state = STATE_WORK_PAUSED
    /\ is_currently_inactive
    /\ work_elapsed > 0
    /\ pause_elapsed > 0

(***************************************************************************)
(* C11: the edge handlers are idempotent.  Right after _on_activity has    *)
(* run (its thread still holds state_lock, so no tick came between),       *)
(* running _on_activity once more would leave the state, the four counters *)
(* and the inactivity flag as they are; likewise for _on_inactivity; and   *)
(* an _on_activity that finds the cycle working leaves work_elapsed (and   *)
(* the state) unchanged.                                                   *)
(***************************************************************************)
C11_SecondActivityIsNoOp ==
    state_lock \in {"on_activity", "force_activity_check"} =>
        ENABLED (on_activity /\ UNCHANGED coordinator)

C11_SecondInactivityIsNoOp ==
    state_lock = "on_inactivity" =>
        ENABLED (on_inactivity /\ UNCHANGED coordinator)

C11_ActivityWhileWorking ==
    [][(ActivityStep /\ state = STATE_WORKING) =>
           /\ work_elapsed' = work_elapsed
           /\ state' = STATE_WORKING]_vars

\* C11: both handlers idempotent, and activity while working is a no-op
C11_EdgeHandlersIdempotent ==
    /\ []C11_SecondActivityIsNoOp
    /\ []C11_SecondInactivityIsNoOp
    /\ C11_ActivityWhileWorking

\* _on_activity has just run on a working cycle with work time accumulated
\* (a second activity call in a row: the callback thread after the force
\* check, or the other way round)
C11_Witness ==
    /\ state_lock \in {"on_activity", "force_activity_check"}
    /\ state = STATE_WORKING
    /\ work_elapsed > 0
    /\ ~is_currently_inactive

(***************************************************************************)
(* C12: a notification request is handed to the notification sink only     *)
(* after the tick has released the state exclusion: at no step that hands  *)
(* a request to notify does the main loop hold state_lock.                 *)
(***************************************************************************)
C12_NotifyAfterRelease ==
    [][NotifyStep => state_lock # "main_loop"]_vars

(***************************************************************************)
(* C13: a delivery that fails or never completes has no effect on the      *)
(* coordinator.  (a) When a request is handed to notify the transition     *)
(* that asked for it is already applied in full, and the hand-over changes *)
(* nothing of the cycle.  (b) The return of a _send thread, after a        *)
(* delivery or after a caught failure, changes nothing but the count of    *)
(* _send threads.  (c) Whatever the number of deliveries outstanding, the  *)
(* thread that holds state_lock can go on to release it, and a thread      *)
(* waiting for a free state_lock can take it.                              *)
(***************************************************************************)
C13_TransitionApplied ==
    [][NotifyStep =>
          LET request == notified'[Len(notified')] IN
          /\ UNCHANGED coordinator
          /\ request.audio_type = "rest" =>
                 state' = STATE_WAIT_REST /\ work_elapsed' = 0
          /\ request.audio_type = "auto_rest" =>
                 /\ state' = STATE_RESTING
                 /\ work_elapsed' = 0
                 /\ pause_elapsed' = 0
                 /\ rest_elapsed' = 0
          /\ request.audio_type = "work" =>
                 /\ state' = STATE_IDLE
                 /\ work_elapsed' = 0
                 /\ rest_elapsed' = 0
                 /\ rest_inactivity_elapsed' = 0]_vars

C13_SendChangesNothing ==
    [][SendStep =>
          UNCHANGED <<coordinator, config, state_lock, running, main_thread,
                      save_thread, force_checks, monitor>>]_vars

C13_LockHolderProceeds ==
    /\ tick_pc \in {"notify_rest", "notify_auto_rest", "notify_work"} =>
           ENABLED TickNotify
    /\ tick_pc = "unlock" => ENABLED TickRelease
    /\ state_lock \in {"on_activity", "on_inactivity",
                        "force_activity_check"} => ENABLED HandlerRelease
    /\ state_lock = "save_config" => ENABLED SpawnForceCheck
    /\ state_lock = "get_state_info" => ENABLED SnapshotRelease

C13_LockCanBeTaken ==
    state_lock = "free" =>
        /\ tick_pc = "sleep" => ENABLED (\E d \in Deltas : TickBody(d))
        /\ activity_threads > 0 => ENABLED OnActivity
        /\ inactivity_threads > 0 => ENABLED OnInactivity
        /\ (save_pc = "reset" /\ force_checks < MaxForceChecks) =>
               ENABLED ResetCycle
        /\ tray_up => ENABLED Snapshot

\* C13: deliveries, failed or never completed, do not affect the coordinator
C13_DeliveryHasNoEffect ==
    /\ C13_TransitionApplied
    /\ C13_SendChangesNothing
    /\ []C13_LockHolderProceeds
    /\ []C13_LockCanBeTaken

\* the delivery of an earlier request has not completed, and a later tick
\* has ended the rest and is about to hand over the next request
C13_Witness ==
    /\ send_threads = MaxSends
    /\ tick_pc = "notify_work"
    /\ state = STATE_IDLE
    /\ state_lock = "main_loop"

(***************************************************************************)
(* C14: the edge callbacks are handled in the order the monitor raised     *)
(* them: once every raised callback has been handled,                      *)
(* is_currently_inactive is TRUE only if the last edge the monitor raised  *)
(* was an inactivity edge, that is only if ActivityMonitor.is_active is    *)
(* FALSE.  (A config update or a force check only ever sets the flag       *)
(* FALSE, so no such step can make this fail.)                             *)
(***************************************************************************)
C14_FlagFollowsLastEdge ==
    AllEdgesHandled => (is_currently_inactive => ~is_active)

(***************************************************************************)
(* C15: the monitor is edge-triggered.  It raises on_activity only on a    *)
(* step that takes is_active from FALSE to TRUE and on_inactivity only on  *)
(* a step that takes it from TRUE to FALSE, is_active changes on no other  *)
(* step, and it is FALSE until the monitor is started: so the raised edges *)
(* alternate strictly, beginning with an activity edge.                    *)
(***************************************************************************)
C15_RaisedOnChangeOnly ==
    [][/\ RaiseActivity => (~is_active /\ is_active')
       /\ RaiseInactivity => (is_active /\ ~is_active')
       /\ (is_active' # is_active) => (RaiseActivity \/ RaiseInactivity)
       /\ ~(RaiseActivity /\ RaiseInactivity)]_vars

C15_InactiveBeforeStart == (tick_pc = "not_started") => ~is_active

\* C15: edges alternate, beginning with an activity edge
C15_EdgesAlternate ==
    /\ C15_RaisedOnChangeOnly
    /\ []C15_InactiveBeforeStart

\* an inactivity edge has been raised and after it an activity edge, both
\* callbacks still waiting, and further raw input has arrived since
C15_Witness ==
    /\ inactivity_threads > 0
    /\ activity_threads > 0
    /\ is_active
    /\ last_activity_age = AGE_RECENT
    /\ state = STATE_WORKING

(***************************************************************************)
(* C16: a config update starts exactly one force_activity_check thread,    *)
(* and such a thread calls _on_activity at most once, and only if the last *)
(* raw input is less than 5 seconds old; if it is older the thread ends    *)
(* without touching the cycle.  An idle cycle stays idle on every step     *)
(* that is not a call of _on_activity (ticks, inactivity edges).           *)
(***************************************************************************)
C16_OneThreadPerUpdate ==
    [][/\ (save_pc = "spawn" /\ save_pc' = "idle") =>
              force_checks' = force_checks + 1
       /\ (force_checks' > force_checks) =>
              (save_pc = "spawn" /\ save_pc' = "idle")
       /\ SynthesizedStep => force_checks' = force_checks - 1]_vars

C16_OnlyAfterRecentInput ==
    [][/\ SynthesizedStep => last_activity_age # AGE_OLD
       /\ (ForceStep /\ last_activity_age = AGE_OLD) =>
              UNCHANGED <<coordinator, state_lock>>]_vars

C16_IdleUntilActivity ==
    [][(state = STATE_IDLE /\ ~ActivityStep) => state' = STATE_IDLE]_vars

C17_DurationsAtLeastOne ==
    /\ config.work_minutes >= 1
    /\ config.rest_minutes >= 1
    /\ config.auto_rest_minutes >= 1

(***************************************************************************)
(* C18: a save request with a non-numeric duration is rejected as a whole. *)
(* The step that rejects it and the step that then closes the window       *)
(* change no Config field and nothing of the cycle, take no lock and start *)
(* no force check; a rejected request never goes on to Config.update or to *)
(* the reset; only dicts whose three durations are integers reach          *)
(* _save_config; and the thread always gets from the except branch to the  *)
(* closing of the window (no error leaves _save).                          *)
(***************************************************************************)
C18_RejectionChangesNothing ==
    [][(save_pc' = "rejected" \/ save_pc = "rejected") =>
          /\ save_pc' \in {"rejected", "idle"}
          /\ (save_pc' # save_pc) =>
                 UNCHANGED <<coordinator, config, state_lock, new_values,
                             force_checks>>]_vars

C18_OnlyNumbersReachUpdate ==
    /\ save_pc \notin {"idle", "rejected"} =>
           /\ new_values.work_minutes \in Int
           /\ new_values.rest_minutes \in Int
           /\ new_values.auto_rest_minutes \in Int
    /\ save_pc = "rejected" => ENABLED CloseRejected

\* C18: a non-numeric save request changes nothing and raises nothing
C18_NonNumericSaveRejected ==
    /\ C18_RejectionChangesNothing
    /\ []C18_OnlyNumbersReachUpdate

\* a save request was rejected while a cycle was under way (paused, the
\* user away, work time accumulated)
C18_Witness ==
    /\ save_pc = "rejected"
    /\ state = STATE_WORK_PAUSED
    /\ work_elapsed > 0
    /\ is_currently_inactive

(***************************************************************************)
(* C19: _get_state_info is a pure read.  The step that takes the snapshot  *)
(* changes no field of the cycle and no Config field; the dict it returns  *)
(* holds state, work_elapsed and rest_elapsed as they are and the two      *)
(* totals of the active Config; and a second call made right after it,     *)
(* with no tick, edge or config update between, would return the same      *)
(* dict.                                                                   *)
(***************************************************************************)
C19_SnapshotIsPureRead ==
    [][SnapshotStep =>
          /\ UNCHANGED <<coordinator, config>>
          /\ state_info'.state = state
          /\ state_info'.work_elapsed = work_elapsed
          /\ state_info'.work_total = config.work_minutes * SecondsPerMinute
          /\ state_info'.rest_elapsed = rest_elapsed
          /\ state_info'.rest_total = config.rest_minutes * SecondsPerMinute
          /\ state_info' = get_state_info']_vars

\* a snapshot is being returned of a rest under way, with rest time
\* accumulated, while a config update is half done
C19_Witness ==
    /\ state_lock = "get_state_info"
    /\ state = STATE_RESTING
    /\ rest_elapsed > 0
    /\ UpdateInProgress

(***************************************************************************)
(* C20, as claimed: once stop() has cleared the running flag the main loop *)
(* executes no tick body.                                                  *)
(***************************************************************************)
C20_NoTickAfterStop ==
    [][(tick_pc # "not_started" /\ ~running) => ~TickStep]_vars

(***************************************************************************)
(* C20, amended: once stop() has cleared the running flag, the flag stays  *)
(* cleared, the main loop finishes at most the iteration it is in (its     *)
(* sleep and the tick body after it), leaves the loop at its next          *)
(* `while self.running` check and never comes back; and under fair         *)
(* scheduling it does exit.                                                *)
(***************************************************************************)
C20_ExitsAtNextCheck ==
    [][/\ (tick_pc # "not_started" /\ ~running) => ~running'
       /\ (tick_pc = "while_running" /\ ~running) =>
              tick_pc' \in {"while_running", "exited"}
       /\ (tick_pc = "exited") => (tick_pc' = "exited" /\ ~running)]_vars

C20_EventuallyExits ==
    (tick_pc # "not_started" /\ ~running) ~> (tick_pc = "exited")

\* C20 (amended): cooperative shutdown ends the loop after at most the
\* iteration under way
C20_ShutdownTerminates ==
    /\ C20_ExitsAtNextCheck
    /\ C20_EventuallyExits

\* the loop has exited after stop(), leaving a work period under way and a
\* delivery outstanding
C20_Witness ==
    /\ tick_pc = "exited"
    /\ ~running
    /\ state = STATE_WORKING
    /\ work_elapsed > 0
    /\ send_threads > 0

(***************************************************************************)
(* C21: if the activity monitor fails to start, the tick loop is still     *)
(* started: every Observer.start (the step that sets running) leaves the   *)
(* main loop thread at the top of its loop.                                *)
(***************************************************************************)
C21_TickLoopStarted ==
    [][(tick_pc = "not_started" /\ running') =>
           tick_pc' = "while_running"]_vars

(***************************************************************************)
(* C22: work time accrues only while the user is active: once every        *)
(* raised edge callback and every synthesized activity call has been       *)
(* handled, a cycle in working means that the monitor's own is_active flag *)
(* is TRUE.                                                                *)
(***************************************************************************)
C22_WorkingOnlyWhileActive ==
    (AllEdgesHandled /\ state = STATE_WORKING) => is_active

(***************************************************************************)
(* C23: whenever state_lock is free, a working or paused cycle has         *)
(* work_elapsed below the work duration of the active Config, a paused one *)
(* has pause_elapsed below its auto-rest duration and a resting one has    *)
(* rest_elapsed below its rest duration; and a snapshot never reports      *)
(* work_elapsed >= work_total or rest_elapsed >= rest_total.               *)
(***************************************************************************)
C23_ElapsedBelowDuration ==
    /\ state_lock = "free" =>
           /\ state \in {STATE_WORKING, STATE_WORK_PAUSED} =>
                  work_elapsed < config.work_minutes * SecondsPerMinute
           /\ state = STATE_WORK_PAUSED =>
                  pause_elapsed < config.auto_rest_minutes * SecondsPerMinute
           /\ state = STATE_RESTING =>
                  rest_elapsed < config.rest_minutes * SecondsPerMinute
    /\ state_lock = "get_state_info" =>
           /\ state_info.work_elapsed < state_info.work_total
           /\ state_info.rest_elapsed < state_info.rest_total

(***************************************************************************)
(* C24: dormant counters are zero in every reachable state: pause_elapsed  *)
(* is 0 unless the cycle is paused, rest_elapsed and                       *)
(* rest_inactivity_elapsed are 0 unless it is resting, and work_elapsed is *)
(* 0 whenever it is idle, waiting for the rest or resting.                 *)
(***************************************************************************)
C24_DormantCountersZero ==
    /\ state # STATE_WORK_PAUSED => pause_elapsed = 0
    /\ state # STATE_RESTING =>
           (rest_elapsed = 0 /\ rest_inactivity_elapsed = 0)
    /\ state \in {STATE_IDLE, STATE_WAIT_REST, STATE_RESTING} =>
           work_elapsed = 0

\* a rest has just completed (rest_elapsed had reached the rest duration)
\* and the tick left every counter at zero before announcing work
C24_Witness ==
    /\ tick_pc = "notify_work"
    /\ state = STATE_IDLE
    /\ delta = MaxDelta
    /\ work_elapsed + rest_elapsed + rest_inactivity_elapsed + pause_elapsed = 0

(***************************************************************************)
(* C25: the inactivity flag follows the state: it is false while the cycle *)
(* is working or waiting for the rest and true while it is paused or       *)
(* resting.  Hence, while resting, rest_inactivity_elapsed advances with   *)
(* rest_elapsed, and the tick that completes a rest finds the flag set and *)
(* the two counters equal.                                                 *)
(***************************************************************************)
C25_FlagMatchesState ==
    /\ state \in {STATE_WORKING, STATE_WAIT_REST} => ~is_currently_inactive
    /\ state \in {STATE_WORK_PAUSED, STATE_RESTING} => is_currently_inactive

C25_RestCountsInactivity ==
    state = STATE_RESTING => rest_inactivity_elapsed = rest_elapsed

C25_RestCompletesInactive ==
    [][(TickStep /\ state = STATE_RESTING /\ state' = STATE_IDLE) =>
           /\ is_currently_inactive
           /\ is_currently_inactive'
           /\ rest_inactivity_elapsed = rest_elapsed]_vars

C25_FlagFollowsState ==
    /\ []C25_FlagMatchesState
    /\ []C25_RestCountsInactivity
    /\ C25_RestCompletesInactive

\* a rest that lasted more than one tick has just completed with the user
\* away
C25_Witness ==
    /\ tick_pc = "notify_work"
    /\ state = STATE_IDLE
    /\ is_currently_inactive
    /\ delta < config.rest_minutes * SecondsPerMinute

(***************************************************************************)
(* C26: whatever the measured delta, one tick makes at most one state      *)
(* transition (working -> wait_rest, paused -> resting or resting -> idle) *)
(* and hands at most one request to notify(); the rest of the tick changes *)
(* nothing of the cycle.  After a transition every counter is 0: the phase *)
(* entered starts from 0 and the time beyond the threshold is dropped.     *)
(***************************************************************************)
C26_OneTransition ==
    [][TickStep =>
           \/ state' = state
           \/ <<state, state'>> \in
                  {<<STATE_WORKING, STATE_WAIT_REST>>,
                   <<STATE_WORK_PAUSED, STATE_RESTING>>,
                   <<STATE_RESTING, STATE_IDLE>>}]_vars

C26_RestOfTickChangesNothing ==
    [][state_lock = "main_loop" => UNCHANGED coordinator]_vars

C26_OneNotification ==
    /\ Len(notified) <= 1
    /\ tick_pc \in {"notify_rest", "notify_auto_rest", "notify_work"} =>
           notified = <<>>

C26_ExcessDiscarded ==
    [][(TickStep /\ state' # state) =>
           /\ work_elapsed' = 0
           /\ pause_elapsed' = 0
           /\ rest_elapsed' = 0
           /\ rest_inactivity_elapsed' = 0]_vars

C26_OneStepPerTick ==
    /\ C26_OneTransition
    /\ C26_RestOfTickChangesNothing
    /\ []C26_OneNotification
    /\ C26_ExcessDiscarded

\* a tick whose delta covers the auto-rest threshold and the whole rest has
\* entered the rest, with rest_elapsed at 0, and has made its one request
C26_Witness ==
    /\ state = STATE_RESTING
    /\ state_lock = "main_loop"
    /\ tick_pc = "unlock"
    /\ Len(notified) = 1
    /\ rest_elapsed = 0
    /\ delta >= (config.auto_rest_minutes + config.rest_minutes)
                    * SecondsPerMinute

(***************************************************************************)
(* C27: in the sequence of requests handed to notify(), a "work" (resume)  *)
(* request comes right after a "rest" or "auto_rest" request, with no run  *)
(* of _on_activity in between: so every resume has a rest or auto_rest     *)
(* after the resume before it (or after the start), and no two resumes are *)
(* adjacent.  A "rest" request is made only when a run of _on_activity     *)
(* (real or synthesized edge) is later than every earlier request: so an   *)
(* activity edge is handled between any two rest requests.                 *)
(***************************************************************************)
C27_ResumeFollowsRest ==
    [][(NotifyStep /\ tick_pc = "notify_work") =>
           /\ last_event \in {"rest", "auto_rest"}
           /\ last_event' = "work"]_vars

C27_RestFollowsActivity ==
    [][(NotifyStep /\ tick_pc = "notify_rest") =>
           /\ last_event = "activity"
           /\ last_event' = "rest"]_vars

C27_NotificationOrder ==
    /\ C27_ResumeFollowsRest
    /\ C27_RestFollowsActivity

\* a resume request has just been made, the request before it having been
\* a rest or auto_rest request, and its _send thread is still running
C27_Witness ==
    /\ state_lock = "main_loop"
    /\ tick_pc = "unlock"
    /\ Len(notified) = 1
    /\ notified[1].audio_type = "work"
    /\ last_event = "work"
    /\ send_threads = MaxSends

(***************************************************************************)
(* C28: if from some point on no edge handler runs (real or synthesized),  *)
(* the configuration is not updated and the cycle is not reset, while the  *)
(* main loop keeps ticking, then the cycle ends up idle or waiting for the *)
(* rest and stays so: ticks take working to wait_rest, paused to resting   *)
(* and resting to idle, and no tick leaves idle or wait_rest.              *)
(***************************************************************************)
\* a step that is no edge handler, no synthesized activity and no part of
\* a configuration update
C28_QuietStep ==
    /\ ~ActivityStep
    /\ ~InactivityStep
    /\ ~ResetStep
    /\ config' = config

C28_Settled == state \in {STATE_IDLE, STATE_WAIT_REST}

C28_Settles ==
    (<>[][C28_QuietStep]_vars /\ []<><<TickStep>>_vars) => <>[]C28_Settled

C28_TickKeepsSettled ==
    [][(TickStep /\ C28_Settled) => state' = state]_vars

C28_TicksOnlyAdvance ==
    [][(TickStep /\ state' # state) =>
           \/ state = STATE_WORKING /\ state' = STATE_WAIT_REST
           \/ state = STATE_WORK_PAUSED /\ state' = STATE_RESTING
           \/ state = STATE_RESTING /\ state' = STATE_IDLE]_vars

C28_QuietCycleSettles ==
    /\ C28_Settles
    /\ C28_TickKeepsSettled
    /\ C28_TicksOnlyAdvance

\* with no callback, force check or update pending, a tick has found the
\* cycle idle after a completed rest and left it idle
C28_Witness ==
    /\ state = STATE_IDLE
    /\ last_event = "work"
    /\ state_lock = "main_loop"
    /\ tick_pc = "unlock"
    /\ notified = <<>>
    /\ activity_threads = 0
    /\ inactivity_threads = 0
    /\ force_checks = 0
    /\ save_pc = "idle"

====
